---- MODULE Spec2Model ----
(***************************************************************************)
(* Recreational Islands Finder (recreational_islands.py).                  *)
(*                                                                         *)
(* main() walks a fixed catalog of islands; for each island                *)
(* NominatimGeocoder.find_coordinates tries three query variants through   *)
(* NominatimGeocoder.geocode, sleeping one second after every variant that *)
(* gave no result, and stores the first result in the island.  Afterwards  *)
(* main() calls create_map when its found_count is positive; create_map    *)
(* filters the islands by the truthiness of their coordinates, centres the *)
(* map on the mean coordinate and adds one marker per filtered island.     *)
(*                                                                         *)
(* Floats are fixed-point numbers in tenths of a degree.  The Nominatim    *)
(* service is the environment: every request draws its response from       *)
(* Responses.  An Optional value is the empty sequence (None) or a         *)
(* one-element sequence.                                                   *)
(***************************************************************************)
EXTENDS Integers, Sequences, FiniteSets, TLC

VARIABLES
    islands,      \* main: the list of Island objects
    pc,           \* control position of the single thread
    i,            \* main: 1-based position of the for loop over islands
    q,            \* find_coordinates: 1-based position in queries
    found_count,  \* main: found_count
    map_file,     \* the file written by map_obj.save, NoFile before that
    slept,        \* seconds spent in time.sleep since the last request
    processed,    \* history: islands handed to find_coordinates, in order
    returned,     \* history: what find_coordinates returned, in order
    log           \* history: the requests sent, with the service's response

vars ==
    <<islands, pc, i, q, found_count, map_file, slept, processed, returned, log>>

----------------------------------------------------------------------------
(* Bounds and program constants *)

NumIslands == 2

MIN_INTERVAL == 1

None == <<>>

Some(v) == <<v>>

NoFile == [written |-> FALSE]

----------------------------------------------------------------------------
(* Island *)

Island(name, city, notes) ==
    [name |-> name, city |-> city, notes |-> notes,
     latitude |-> None, longitude |-> None]

AllIslands ==
    << Island("Sipoonranta", "Sipoo", "Kayaking base"),
       Island("Kaunissaari", "Sipoo", "Beautiful islands with services"),
       Island("Pirttisaari", "Porvoo", "Old artillery base"),
       Island("Majakkasaari", "Porvoo", "Lighthouse island"),
       Island("Luotsisaari", "Porvoo", "Old pilot base"),
       Island("Eestiluoto", "Sipoo", "Nice islands far away") >>

Catalog == SubSeq(AllIslands, 1, NumIslands)

----------------------------------------------------------------------------
(* The geocoding service: what one HTTP GET can produce *)

\* 'lat' / 'lon' are numeric strings, kept as sequences of characters
Matches ==
    { [lat |-> <<"0", ".", "0">>,      lon |-> <<"2", "5", ".", "0">>],
      [lat |-> <<"6", "0", ".", "0">>, lon |-> <<"0", ".", "0">>],
      [lat |-> <<"6", "0", ".", "2">>, lon |-> <<"2", "5", ".", "4">>] }

\* subclasses of requests.RequestException raised by session.get (timeout=10)
\* and by response.raise_for_status
RequestException == {"Timeout", "HTTPError"}

Responses ==
    [exc : RequestException, results : {<<>>}]
      \cup [exc : {""}, results : {<<>>} \cup {<<m>> : m \in Matches}]

IsTransportFailure(response) == response.exc \in RequestException

IsNotFoundAnswer(response) == response.exc = "" /\ response.results = <<>>

IsMatch(response) == response.exc = "" /\ response.results # <<>>

----------------------------------------------------------------------------
(* float(): decimal string to fixed point (tenths) *)

DigitValue(c) ==
    CASE c = "0" -> 0 [] c = "1" -> 1 [] c = "2" -> 2 [] c = "3" -> 3
      [] c = "4" -> 4 [] c = "5" -> 5 [] c = "6" -> 6 [] c = "7" -> 7
      [] c = "8" -> 8 [] c = "9" -> 9

RECURSIVE ParseDigits(_, _)
ParseDigits(s, acc) ==
    IF s = <<>> THEN acc
    ELSE ParseDigits(Tail(s), acc * 10 + DigitValue(Head(s)))

float(s) ==
    LET dot == CHOOSE k \in 1..Len(s) : s[k] = "."
    IN  ParseDigits(SubSeq(s, 1, dot - 1), 0) * 10
          + ParseDigits(SubSeq(s, dot + 1, dot + 1), 0)

\* truth value of an Optional[float]: None and 0.0 are both false
Truthy(x) == x # None /\ x[1] # 0

----------------------------------------------------------------------------
(* NominatimGeocoder *)

Return(v) == [raised |-> "", value |-> v]

Raise(e) == [raised |-> e, value |-> None]

\* the except clause of geocode
CaughtTimeoutOnly(exc) == exc = "Timeout"

Caught(exc) == exc \in RequestException

geocode(response) ==
    IF response.exc # ""
    THEN IF Caught(response.exc) THEN Return(None) ELSE Raise(response.exc)
    ELSE IF response.results # <<>>
         THEN Return(Some(response.results[1]))
         ELSE Return(None)

queriesReordered(island) ==
    << island.name \o ", " \o island.city,
       island.name \o ", " \o island.city \o ", Finland",
       island.name \o " Finland" >>

queries(island) ==
    << island.name \o ", " \o island.city \o ", Finland",
       island.name \o ", " \o island.city,
       island.name \o " Finland" >>

\* for query in queries: is there another query after position k
SkipsLastQuery(k, qs) == k < Len(qs) - 1

HasNextQuery(k, qs) == k < Len(qs)

SetLatitudeOnly(island, result) ==
    [island EXCEPT !.latitude = Some(float(result.lat))]

SetCoordinates(island, result) ==
    [island EXCEPT !.latitude = Some(float(result.lat)),
                   !.longitude = Some(float(result.lon))]

----------------------------------------------------------------------------
(* create_map *)

islands_with_coords(isl) ==
    SelectSeq(isl, LAMBDA island :
                     Truthy(island.latitude) /\ Truthy(island.longitude))

RECURSIVE sum(_)
sum(xs) == IF xs = <<>> THEN 0 ELSE Head(xs) + sum(Tail(xs))

\* sum(...) / len(...), kept as the fraction num/den
Mean(xs) == [num |-> sum(xs), den |-> Len(xs)]

Marker(island) ==
    [location |-> <<island.latitude[1], island.longitude[1]>>,
     tooltip  |-> island.name,
     popup    |-> <<island.name, island.city, island.notes,
                    island.latitude[1], island.longitude[1]>>]

\* lines 123-158: the map, its markers, and the save
build_map(iwc, output_file) ==
    IF Len(iwc) = 0
    THEN [written |-> FALSE, error |-> "ZeroDivisionError"]
    ELSE [written |-> TRUE,
          name    |-> output_file,
          center  |-> [lat |-> Mean([k \in 1..Len(iwc) |-> iwc[k].latitude[1]]),
                       lon |-> Mean([k \in 1..Len(iwc) |-> iwc[k].longitude[1]])],
          markers |-> [k \in 1..Len(iwc) |-> Marker(iwc[k])]]

create_map(isl, output_file) ==
    IF islands_with_coords(isl) = <<>>
    THEN NoFile
    ELSE build_map(islands_with_coords(isl), output_file)

----------------------------------------------------------------------------
(* main *)

CountEveryIsland(count, found) == count + 1

\* if geocoder.find_coordinates(island): found_count += 1
main_count(count, found) == IF found THEN count + 1 ELSE count

main_map_unguarded(count, isl) ==
    build_map(islands_with_coords(isl), "recreational_islands_map.html")

\* if found_count > 0: create_map(islands)
main_map(count, isl) ==
    IF count > 0
    THEN create_map(isl, "recreational_islands_map.html")
    ELSE NoFile

----------------------------------------------------------------------------
(* The run *)

Init ==
    /\ islands = Catalog
    /\ pc = "main_loop"
    /\ i = 1
    /\ q = 1
    /\ found_count = 0
    /\ map_file = NoFile
    /\ slept = 0
    /\ processed = <<>>
    /\ returned = <<>>
    /\ log = <<>>

\* main: the for loop hands the next island to find_coordinates
MainNextIsland ==
    /\ pc = "main_loop"
    /\ i <= Len(islands)
    /\ processed' = Append(processed, i)
    /\ q' = 1
    /\ pc' = "geocode"
    /\ UNCHANGED <<islands, i, found_count, map_file, slept, returned, log>>

\* find_coordinates: one pass of the loop body up to the test of result
FindCoordinatesQuery ==
    /\ pc = "geocode"
    /\ \E response \in Responses :
         LET query  == queries(islands[i])[q]
             result == geocode(response)
         IN  /\ log' = Append(log, [island |-> i, variant |-> q,
                                    query |-> query, response |-> response,
                                    waited |-> slept])
             /\ slept' = 0
             /\ IF result.raised # ""
                THEN /\ pc' = "aborted"
                     /\ UNCHANGED <<islands, i, found_count, returned>>
                ELSE IF result.value # None
                THEN /\ islands' = [islands EXCEPT
                                      ![i] = SetCoordinates(@, result.value[1])]
                     /\ returned' = Append(returned, TRUE)
                     /\ found_count' = main_count(found_count, TRUE)
                     /\ i' = i + 1
                     /\ pc' = "main_loop"
                ELSE /\ pc' = "sleep"
                     /\ UNCHANGED <<islands, i, found_count, returned>>
    /\ UNCHANGED <<q, map_file, processed>>

\* find_coordinates: time.sleep(1), then the next query or return False
FindCoordinatesSleep ==
    /\ pc = "sleep"
    /\ slept' = slept + MIN_INTERVAL
    /\ IF HasNextQuery(q, queries(islands[i]))
       THEN /\ q' = q + 1
            /\ pc' = "geocode"
            /\ UNCHANGED <<i, found_count, returned>>
       ELSE /\ returned' = Append(returned, FALSE)
            /\ found_count' = main_count(found_count, FALSE)
            /\ i' = i + 1
            /\ pc' = "main_loop"
            /\ UNCHANGED q
    /\ UNCHANGED <<islands, map_file, processed, log>>

\* main: the for loop is exhausted, the results are printed
MainLoopExit ==
    /\ pc = "main_loop"
    /\ i > Len(islands)
    /\ pc' = "results"
    /\ UNCHANGED <<islands, i, q, found_count, map_file, slept,
                   processed, returned, log>>

\* main: create the map when something was found
MainCreateMap ==
    /\ pc = "results"
    /\ LET out == main_map(found_count, islands)
       IN  IF out.written \/ out = NoFile
           THEN map_file' = out /\ pc' = "done"
           ELSE map_file' = map_file /\ pc' = "aborted"
    /\ UNCHANGED <<islands, i, q, found_count, slept, processed, returned, log>>

Next ==
    \/ MainNextIsland
    \/ FindCoordinatesQuery
    \/ FindCoordinatesSleep
    \/ MainLoopExit
    \/ MainCreateMap

Spec == Init /\ [][Next]_vars

----------------------------------------------------------------------------
(* Vocabulary of the properties, read off the histories *)

Places == 1..Len(Catalog)

\* the requests sent for place k, in the order they were sent
LogOf(k) == SelectSeq(log, LAMBDA e : e.island = k)

\* the service answered a request for place k with a match
Succeeded(k) == \E j \in 1..Len(log) : log[j].island = k /\ IsMatch(log[j].response)

\* find_coordinates has returned for place k
Finished(k) == k <= Len(returned)

LoopFinished == pc \in {"results", "done"}

\* the documented order of the variants, for every place of the catalog
ExpectedQueries ==
    [k \in 1..Len(Catalog) |->
        << Catalog[k].name \o ", " \o Catalog[k].city \o ", Finland",
           Catalog[k].name \o ", " \o Catalog[k].city,
           Catalog[k].name \o " Finland" >>]

\* position in es of the first request that was answered with a match
FirstMatch(es) ==
    CHOOSE j \in 1..Len(es) :
        /\ IsMatch(es[j].response)
        /\ \A h \in 1..(j - 1) : ~IsMatch(es[h].response)

\* the names of the places whose lookup succeeded, in catalog order
RECURSIVE SucceededNames(_)
SucceededNames(k) ==
    IF k > Len(Catalog) THEN <<>>
    ELSE IF Succeeded(k)
         THEN <<Catalog[k].name>> \o SucceededNames(k + 1)
         ELSE SucceededNames(k + 1)

RECURSIVE SumOver(_, _)
SumOver(f, S) ==
    IF S = {} THEN 0
    ELSE LET x == CHOOSE y \in S : TRUE IN f[x] + SumOver(f, S \ {x})

----------------------------------------------------------------------------
(* C1: every geocoding request after the first one of a run is preceded,   *)
(* since the request before it, by a pacing wait of at least the minimum   *)
(* interval, within a place and from one place to the next.                *)
C1_PacedRequests ==
    \A j \in 2..Len(log) : log[j].waited >= MIN_INTERVAL

(* C2: for a place with a matching variant, the requests follow the order  *)
(* "name, city, Finland", "name, city", "name Finland", the stored         *)
(* coordinates are those of the first match, and no request follows it.    *)
C2_FirstMatchWins ==
    \A k \in Places :
        Succeeded(k) =>
            LET es    == LogOf(k)
                first == FirstMatch(es)
                m     == es[first].response.results[1]
            IN  /\ \A j \in 1..Len(es) :
                       /\ es[j].variant = j
                       /\ es[j].query = ExpectedQueries[k][j]
                /\ Len(es) = first
                /\ islands[k].latitude = Some(float(m.lat))
                /\ islands[k].longitude = Some(float(m.lon))

C2_Witness ==
    /\ pc = "done"
    /\ \E k \in Places :
           /\ Len(LogOf(k)) = 2
           /\ IsNotFoundAnswer(LogOf(k)[1].response)
           /\ IsMatch(LogOf(k)[2].response)
           /\ islands[k].latitude = Some(602)

\* what follows a request that gave no result: the next variant of the same
\* place, or after the last variant the first variant of the next place
MissIsPassedOver(j) ==
    LET e == log[j]
        nextIsland  == IF e.variant < 3 THEN e.island ELSE e.island + 1
        nextVariant == IF e.variant < 3 THEN e.variant + 1 ELSE 1
    IN  /\ j < Len(log) =>
              /\ log[j + 1].island = nextIsland
              /\ log[j + 1].variant = nextVariant
        /\ j = Len(log) =>
              \/ pc = "sleep" /\ i = e.island /\ q = e.variant
              \/ pc = "geocode" /\ i = nextIsland /\ q = nextVariant
              \/ pc = "main_loop" /\ i = e.island + 1 /\ e.variant = 3
              \/ LoopFinished /\ e.island = Len(Catalog) /\ e.variant = 3

(* C3: a transport failure on a variant is handled like a not-found        *)
(* answer: the place's coordinates stay as they were, the next variant of  *)
(* the place is tried, the later places are processed, the run never       *)
(* aborts.                                                                 *)
C3_TransportFailureIsAMiss ==
    /\ pc # "aborted"
    /\ \A j \in 1..Len(log) :
           IsTransportFailure(log[j].response) => MissIsPassedOver(j)
    /\ \A k \in Places :
           ~Succeeded(k) => islands[k].latitude = None /\ islands[k].longitude = None
    /\ LoopFinished => processed = [k \in Places |-> k]

C3_Witness ==
    /\ pc = "done"
    /\ Len(log) >= 5
    /\ log[1].response.exc = "HTTPError"
    /\ log[2].island = 1 /\ log[2].variant = 2
    /\ log[3].response.exc = "Timeout" /\ log[3].variant = 3
    /\ log[4].island = 2
    /\ Succeeded(2)

(* C4: a place whose variants all return not-found has had each variant    *)
(* requested exactly once when find_coordinates returns, the return value  *)
(* is False, and its latitude and longitude are absent once the catalog    *)
(* has been processed.                                                     *)
C4_AllNotFound ==
    \A k \in Places :
        LET es == LogOf(k)
        IN  (Finished(k) /\ \A j \in 1..Len(es) : IsNotFoundAnswer(es[j].response))
                => /\ Len(es) = 3
                   /\ \A v \in 1..3 : es[v].query = ExpectedQueries[k][v]
                   /\ returned[k] = FALSE
                   /\ LoopFinished =>
                          islands[k].latitude = None /\ islands[k].longitude = None

C4_Witness ==
    /\ pc = "done"
    /\ Len(LogOf(1)) = 3
    /\ \A j \in 1..3 : IsNotFoundAnswer(LogOf(1)[j].response)
    /\ returned[1] = FALSE
    /\ Succeeded(2)

(* C5: the map holds exactly one marker for each entry whose lookup        *)
(* succeeded and none for any other, in catalog order.                     *)
C5_MarkerPerSucceededEntry ==
    (pc = "done" /\ map_file.written) =>
        [k \in 1..Len(map_file.markers) |-> map_file.markers[k].tooltip]
            = SucceededNames(1)

(* C6: if no place resolves, no map is produced and no file is written,    *)
(* the run does not abort and goes on until it is done.                    *)
C6_NothingResolvedNoMap ==
    (\A k \in Places : ~Succeeded(k)) =>
        /\ map_file = NoFile
        /\ pc # "aborted"
        /\ pc = "done" \/ ENABLED Next

C6_Witness ==
    /\ pc = "done"
    /\ \A k \in Places : ~Succeeded(k)
    /\ Len(log) = 3 * Len(Catalog)
    /\ found_count = 0

(* C7: when at least one place resolved, the map centre is, on each axis,  *)
(* the sum over all resolved entries divided by their number.              *)
C7_CentreIsMeanOfResolved ==
    (pc = "done" /\ \E k \in Places : Succeeded(k)) =>
        LET R == {k \in Places : Succeeded(k)}
        IN  /\ map_file.written
            /\ map_file.center.lat.num * Cardinality(R)
                 = SumOver([k \in R |-> islands[k].latitude[1]], R)
                     * map_file.center.lat.den
            /\ map_file.center.lon.num * Cardinality(R)
                 = SumOver([k \in R |-> islands[k].longitude[1]], R)
                     * map_file.center.lon.den
            /\ Len(map_file.markers) = Cardinality(R)

(* C8: a successful lookup that returns latitude 0 or longitude 0 counts   *)
(* as resolved: the entry passes the map builder's filter and has a marker *)
(* on the map.                                                             *)
C8_ZeroCoordinateIsResolved ==
    \A k \in Places :
        (Succeeded(k) /\ (islands[k].latitude = Some(0) \/ islands[k].longitude = Some(0)))
            => /\ \E n \in 1..Len(islands_with_coords(islands)) :
                      islands_with_coords(islands)[n].name = islands[k].name
               /\ pc = "done" =>
                      /\ map_file.written
                      /\ \E n \in 1..Len(map_file.markers) :
                             map_file.markers[n].tooltip = islands[k].name

(* C9: in every state a place has both coordinates or neither, and         *)
(* coordinates that are set are never changed or cleared.                  *)
C9_CoordinatesSetOnce ==
    /\ [](\A k \in Places :
              (islands[k].latitude = None) <=> (islands[k].longitude = None))
    /\ [][\A k \in Places :
              (islands[k].latitude # None \/ islands[k].longitude # None)
                  => /\ islands'[k].latitude = islands[k].latitude
                     /\ islands'[k].longitude = islands[k].longitude]_vars

C9_Witness ==
    /\ pc = "done"
    /\ islands[1].latitude = Some(600) /\ islands[1].longitude = Some(0)
    /\ islands[2].latitude = None /\ islands[2].longitude = None

(* C10: when the loop over the catalog has finished, every entry has been  *)
(* processed once in catalog order, the catalog holds the entries it       *)
(* started with in the same order, and found_count is the number of        *)
(* entries with coordinates present, at most the size of the catalog.      *)
C10_LoopAccounting ==
    LoopFinished =>
        /\ processed = [k \in Places |-> k]
        /\ Len(returned) = Len(Catalog)
        /\ Len(islands) = Len(Catalog)
        /\ \A k \in Places :
               /\ islands[k].name = Catalog[k].name
               /\ islands[k].city = Catalog[k].city
               /\ islands[k].notes = Catalog[k].notes
        /\ found_count =
               Cardinality({k \in Places : islands[k].latitude # None
                                             /\ islands[k].longitude # None})
        /\ found_count <= Len(Catalog)

C10_Witness ==
    /\ pc = "done"
    /\ found_count = 1
    /\ islands[1].latitude = None
    /\ islands[2].latitude # None

====
